---------------------------- MODULE Spec2Model ----------------------------
(***************************************************************************)
(* Vacancy statistics (src/2.1.3.py): DataSet.parse_csv folds the rows of  *)
(* a CSV file into six accumulators, DataSet.get_clear_data finalizes them *)
(* (averages, shares, threshold, ranking, top 10) and Report renders the   *)
(* finalized maps.                                                         *)
(*                                                                         *)
(* Representation.                                                         *)
(*  - A Python str is a sequence of one-character strings, so that         *)
(*    emptiness, slicing ([:4]), containment (in) and float()/int()        *)
(*    parsing are computed character by character.                         *)
(*  - A Python dict is a sequence of <<key, value>> pairs in insertion     *)
(*    order (dicts iterate in insertion order).                            *)
(*  - A salary (float) is an integer number of 1/SalaryScale roubles:      *)
(*    0.5 * (from + to) * rate = (from + to) * rateE4 / 20000.  The        *)
(*    arithmetic is exact; binary floating point error is not modelled.    *)
(*  - A share (float rounded to 4 places) is an integer number of          *)
(*    1/ShareScale.                                                        *)
(***************************************************************************)
EXTENDS Integers, Sequences, FiniteSets, TLC

VARIABLES
    vacancy_name,    \* DataSet.vacancy_name: the profession substring
    rows,            \* rows[1:] of the file: the data rows
    i,               \* position of the for loop of parse_csv (next row)
    pc,              \* "parse", "report", "error"; "avg", "avg_done"
    err,             \* the exception that ended the run, or "none"
    salary,          \* parse_csv: year -> list of salaries (then average)
    amount,          \* parse_csv: year -> count
    vacancy_salary,  \* parse_csv: year -> list of salaries, filtered
    vacancy_amount,  \* parse_csv: year -> count, filtered
    salary_city,     \* parse_csv: city -> list of salaries (then average)
    share_city,      \* parse_csv: city -> count (then share)
    count,           \* parse_csv: number of vacancies
    mean_salary,     \* parse_csv: salary of the last vacancy
    report,          \* the six maps held by the Report object
    artifacts,       \* the files the presentation methods have written
    other,           \* generate_image: the residual share of the pie
    dct              \* get_salary_avg called alone: its argument

vars == <<vacancy_name, rows, i, pc, err, salary, amount, vacancy_salary,
          vacancy_amount, salary_city, share_city, count, mean_salary,
          report, artifacts, other, dct>>

acc == <<salary, amount, vacancy_salary, vacancy_amount, salary_city,
         share_city, count>>

-----------------------------------------------------------------------------
(* Bounds of the model *)

MaxRows == 3        \* free inputs: at most this many rows from RowPool
MaxCities == 11     \* city inputs: at most this many distinct cities
MaxExtra == 3       \* city inputs: at most this many repeats of one city
MaxPeriod == 3      \* city inputs: salaries cycle with at most this period
HeavyRepeat == 98   \* heavy inputs: repeats of the dominant city
MaxKeys == 2        \* get_salary_avg alone: keys of the argument
MaxBucket == 2      \* get_salary_avg alone: length of a bucket

(* Program constants *)

RateScale == 10000   \* rates have at most four decimals (0.0055)
ShareScale == 10000  \* round(v / count, 4)
ShareMin == 100      \* x[-1] > 0.01, in 1/ShareScale
TopN == 10           \* [:10]
YearLen == 4         \* published_at[:4]
SalaryScale == 2 * RateScale   \* 0.5 * ... * rate

-----------------------------------------------------------------------------
(* Python built-ins *)

Min(a, b) == IF a < b THEN a ELSE b

\* int(x) of a float x = n / d: truncation toward zero
PyInt(n, d) == IF n >= 0 THEN n \div d ELSE -((-n) \div d)

RECURSIVE PySum(_)
PySum(s) == IF s = <<>> THEN 0 ELSE s[1] + PySum(Tail(s))

\* round(n / d, 4) for n >= 0, d > 0, in 1/ShareScale; a tie goes to even
PyRound4(n, d) ==
    LET q == (n * ShareScale) \div d
        r == (n * ShareScale) % d
    IN  IF 2 * r > d THEN q + 1
        ELSE IF 2 * r = d THEN q + (q % 2)
        ELSE q

Digits == <<"0", "1", "2", "3", "4", "5", "6", "7", "8", "9">>

IsDigit(c) == \E n \in 1..10 : Digits[n] = c

DigitVal(c) == (CHOOSE n \in 1..10 : Digits[n] = c) - 1

\* the text after an optional sign
Unsigned(s) == IF s # <<>> /\ s[1] \in {"-", "+"} THEN Tail(s) ELSE s

\* float(s) and int(s) accept s: an optional sign and at least one digit
\* (the alphabet of the inputs has no ".", "e", "_" or blank)
IsNumeric(s) ==
    /\ Unsigned(s) # <<>>
    /\ \A k \in 1..Len(Unsigned(s)) : IsDigit(Unsigned(s)[k])

RECURSIVE DigitsVal(_)
DigitsVal(s) ==
    IF s = <<>> THEN 0
    ELSE DigitsVal(SubSeq(s, 1, Len(s) - 1)) * 10 + DigitVal(s[Len(s)])

\* the value of float(s) / int(s) for a numeric s
PyNumber(s) ==
    IF s[1] = "-" THEN -DigitsVal(Unsigned(s)) ELSE DigitsVal(Unsigned(s))

\* sub in s
StrIn(sub, s) ==
    \E k \in 0..(Len(s) - Len(sub)) : SubSeq(s, k + 1, k + Len(sub)) = sub

\* dict operations
DictHas(d, k) == \E n \in 1..Len(d) : d[n][1] = k

DictGet(d, k) == d[CHOOSE n \in 1..Len(d) : d[n][1] = k][2]

DictSet(d, k, v) ==
    IF DictHas(d, k)
    THEN [n \in 1..Len(d) |-> IF d[n][1] = k THEN <<k, v>> ELSE d[n]]
    ELSE Append(d, <<k, v>>)

DictKeys(d) == {d[n][1] : n \in 1..Len(d)}

\* InsertDesc that places an item before the items equal to it: the sort
\* is no longer stable
RECURSIVE InsertDescUnstable(_, _)
InsertDescUnstable(s, x) ==
    IF s = <<>> THEN <<x>>
    ELSE IF s[Len(s)][2] > x[2] THEN Append(s, x)
    ELSE Append(InsertDescUnstable(SubSeq(s, 1, Len(s) - 1), x), s[Len(s)])

\* sorted(s, key=lambda x: x[-1], reverse=True) of a list of pairs: stable,
\* descending by the second component
RECURSIVE InsertDesc(_, _)
InsertDesc(s, x) ==
    IF s = <<>> THEN <<x>>
    ELSE IF s[Len(s)][2] >= x[2] THEN Append(s, x)
    ELSE Append(InsertDesc(SubSeq(s, 1, Len(s) - 1), x), s[Len(s)])

RECURSIVE SortedDesc(_)
SortedDesc(s) ==
    IF s = <<>> THEN <<>>
    ELSE InsertDesc(SortedDesc(SubSeq(s, 1, Len(s) - 1)), s[Len(s)])

\* s[:10]
Head10(s) == SubSeq(s, 1, Min(TopN, Len(s)))

-----------------------------------------------------------------------------
(* Vacancy *)

\* Vacancy.currency_to_rub, rates in 1/RateScale
currency_to_rub ==
    << <<(<<"A", "Z", "N">>), 356800>>, <<(<<"B", "Y", "R">>), 239100>>,
       <<(<<"E", "U", "R">>), 599000>>, <<(<<"G", "E", "L">>), 217400>>,
       <<(<<"K", "G", "S">>), 7600>>,   <<(<<"K", "Z", "T">>), 1300>>,
       <<(<<"R", "U", "R">>), 10000>>,  <<(<<"U", "A", "H">>), 16400>>,
       <<(<<"U", "S", "D">>), 606600>>, <<(<<"U", "Z", "S">>), 55>> >>

\* rows[0]: the header of the file
titles ==
    <<"name", "salary_from", "salary_to", "salary_currency", "area_name",
      "published_at">>

\* dict(zip(titles, row))
DictZip(keys, row) ==
    [n \in 1..Min(Len(keys), Len(row)) |-> <<keys[n], row[n]>>]

\* float(dct['salary_from']) or float(dct['salary_to']) raises ValueError
VacancyRaises(d) ==
    ~IsNumeric(DictGet(d, "salary_from")) \/ ~IsNumeric(DictGet(d, "salary_to"))

\* Vacancy.__init__
Vacancy(d) ==
    [name            |-> DictGet(d, "name"),
     salary_from     |-> PyNumber(DictGet(d, "salary_from")),
     salary_to       |-> PyNumber(DictGet(d, "salary_to")),
     salary_currency |-> DictGet(d, "salary_currency"),
     area_name       |-> DictGet(d, "area_name"),
     published_at    |-> DictGet(d, "published_at")]

\* get_average_rub_salary with salary_from written for salary_to
get_average_rub_salary_from_only(v) ==
    (v.salary_from + v.salary_from)
        * DictGet(currency_to_rub, v.salary_currency)

\* Vacancy.get_average_rub_salary, in 1/SalaryScale roubles
get_average_rub_salary(v) ==
    (v.salary_from + v.salary_to) * DictGet(currency_to_rub, v.salary_currency)

\* published_at[:4]
YearText(v) == SubSeq(v.published_at, 1, Min(YearLen, Len(v.published_at)))

\* Vacancy.get_published_vacancy_year
get_published_vacancy_year(v) == PyNumber(YearText(v))

-----------------------------------------------------------------------------
(* DataSet.parse_csv *)

\* any(row) written for all(row)
PyAny(row) == \E k \in 1..Len(row) : row[k] # <<>>

\* all(row)
PyAll(row) == \A k \in 1..Len(row) : row[k] # <<>>

\* RowAccepted without all(row)
RowAcceptedByLength(row) == Len(row) = Len(titles)

\* the negation of the condition of `continue`
RowAccepted(row) == Len(row) = Len(titles) /\ PyAll(row)

\* the exception an accepted row raises on its way to the accumulators
RowError(row) ==
    IF VacancyRaises(DictZip(titles, row)) THEN "ValueError"
    ELSE IF ~DictHas(currency_to_rub,
                     Vacancy(DictZip(titles, row)).salary_currency)
         THEN "KeyError"
    ELSE IF ~IsNumeric(YearText(Vacancy(DictZip(titles, row))))
         THEN "ValueError"
    ELSE "none"

\* AddSalary with `=` written for `+=`: the bucket keeps its last salary
AddSalaryOverwrites(d, year, mean) == DictSet(d, year, <<mean>>)

\* salary[year] = [mean_salary] or salary[year] += [mean_salary]
AddSalary(d, year, mean) ==
    IF ~DictHas(d, year) THEN DictSet(d, year, <<mean>>)
    ELSE DictSet(d, year, Append(DictGet(d, year), mean))

\* AddAmount with `=` written for `+=`: the count of a year stays 1
AddAmountOverwrites(d, year) == DictSet(d, year, 1)

\* amount[year] = 1 or amount[year] += 1
AddAmount(d, year) ==
    IF ~DictHas(d, year) THEN DictSet(d, year, 1)
    ELSE DictSet(d, year, DictGet(d, year) + 1)

\* salary_city[city] = [mean_salary] or salary_city[city] += [mean_salary]
AddSalaryCity(d, city, mean) ==
    IF ~DictHas(d, city) THEN DictSet(d, city, <<mean>>)
    ELSE DictSet(d, city, Append(DictGet(d, city), mean))

\* share_city[city] = 1 or share_city[city] += 1
AddShareCity(d, city) ==
    IF ~DictHas(d, city) THEN DictSet(d, city, 1)
    ELSE DictSet(d, city, DictGet(d, city) + 1)

\* vacancy_salary[year] = [mean_salary] or vacancy_salary[year] += [...]
AddVacancySalary(d, year, mean) ==
    IF ~DictHas(d, year) THEN DictSet(d, year, <<mean>>)
    ELSE DictSet(d, year, Append(DictGet(d, year), mean))

\* vacancy_amount[year] = 1 or vacancy_amount[year] += 1
AddVacancyAmount(d, year) ==
    IF ~DictHas(d, year) THEN DictSet(d, year, 1)
    ELSE DictSet(d, year, DictGet(d, year) + 1)

\* self.vacancy_name in vacancy.name
IsProfession(profession, v) == StrIn(profession, v.name)

\* one pass of the loop whose row fails the test: continue
SkipRow ==
    /\ pc = "parse"
    /\ i <= Len(rows)
    /\ ~RowAccepted(rows[i])
    /\ i' = i + 1
    /\ UNCHANGED <<vacancy_name, rows, pc, err, acc, mean_salary, report,
                   artifacts, other, dct>>

\* one pass of the loop whose row becomes a vacancy
AddVacancy ==
    /\ pc = "parse"
    /\ i <= Len(rows)
    /\ RowAccepted(rows[i])
    /\ RowError(rows[i]) = "none"
    /\ LET vacancy == Vacancy(DictZip(titles, rows[i]))
           mean    == get_average_rub_salary(vacancy)
           city    == vacancy.area_name
           year    == get_published_vacancy_year(vacancy)
       IN  /\ count' = count + 1
           /\ mean_salary' = mean
           /\ salary' = AddSalary(salary, year, mean)
           /\ amount' = AddAmount(amount, year)
           /\ salary_city' = AddSalaryCity(salary_city, city, mean)
           /\ share_city' = AddShareCity(share_city, city)
           /\ IF IsProfession(vacancy_name, vacancy)
              THEN /\ vacancy_salary' =
                        AddVacancySalary(vacancy_salary, year, mean)
                   /\ vacancy_amount' = AddVacancyAmount(vacancy_amount, year)
              ELSE UNCHANGED <<vacancy_salary, vacancy_amount>>
    /\ i' = i + 1
    /\ UNCHANGED <<vacancy_name, rows, pc, err, report, artifacts, other, dct>>

\* one pass of the loop whose row raises: nothing catches the exception, the
\* run ends and the locals of parse_csv are gone
RowRaises ==
    /\ pc = "parse"
    /\ i <= Len(rows)
    /\ RowAccepted(rows[i])
    /\ RowError(rows[i]) # "none"
    /\ pc' = "error"
    /\ err' = RowError(rows[i])
    /\ UNCHANGED <<vacancy_name, rows, i, acc, mean_salary, report, artifacts,
                   other, dct>>

-----------------------------------------------------------------------------
(* get_salary_avg and DataSet.get_clear_data *)

\* BucketAvg with round() written for int(): to the nearest integer
BucketAvgRounded(value) ==
    IF Len(value) = 0 THEN 0
    ELSE (2 * PySum(value) + SalaryScale * Len(value))
             \div (2 * SalaryScale * Len(value))

\* 0 if len(value) == 0 else int(sum(value) / len(value))
BucketAvg(value) ==
    IF Len(value) = 0 THEN 0
    ELSE PyInt(PySum(value), SalaryScale * Len(value))

\* get_salary_avg: every bucket of dct replaced by its average, in place
get_salary_avg(d) ==
    IF d = <<>> THEN <<>>
    ELSE [n \in 1..Len(d) |-> <<d[n][1], BucketAvg(d[n][2])>>]

\* share_city[k] = round(v / count, 4) for every item: no item, no division
Shares(d, n) ==
    IF d = <<>> THEN <<>>
    ELSE [k \in 1..Len(d) |-> <<d[k][1], PyRound4(d[k][2], n)>>]

\* list(filter(lambda x: x[-1] > 0.01, [(key, value) for ...]))
ShareFilter(d) == SelectSeq(d, LAMBDA x : x[2] > ShareMin)

\* dict(sorted([(key, value) for ... if key in dict(share_city)], ...)[:10])
SalaryCityTop(avg, kept) ==
    Head10(SortedDesc(SelectSeq(avg, LAMBDA x : DictHas(kept, x[1]))))

\* dict(sorted(share_city, key=lambda x: x[-1], reverse=True)[:10])
ShareCityTop(kept) == Head10(SortedDesc(kept))

\* a value of Report.share_city: the float k / ShareScale, or the str that
\* generate_pdf makes of it, "<k / 100>%"
PyFloat(k) == [type |-> "float", v |-> k]
PyStr(k) == [type |-> "str", v |-> k]

FloatValues(d) ==
    IF d = <<>> THEN <<>>
    ELSE [k \in 1..Len(d) |-> <<d[k][1], PyFloat(d[k][2])>>]

NoReport ==
    [salary |-> <<>>, amount |-> <<>>, this_vacancy_salary |-> <<>>,
     this_vacancy_amount |-> <<>>, salary_city |-> <<>>, share_city |-> <<>>]

\* get_clear_data after its call of parse_csv has returned, and
\* Report(vacancy_name, *dataset.get_clear_data())
get_clear_data ==
    /\ pc = "parse"
    /\ i > Len(rows)
    /\ salary' = get_salary_avg(salary)
    /\ vacancy_salary' = get_salary_avg(vacancy_salary)
    /\ share_city' = Shares(share_city, count)
    /\ salary_city' = get_salary_avg(salary_city)
    /\ report' =
         [salary              |-> salary',
          amount              |-> amount,
          this_vacancy_salary |-> vacancy_salary',
          this_vacancy_amount |-> vacancy_amount,
          salary_city         |-> SalaryCityTop(salary_city',
                                                ShareFilter(share_city')),
          share_city          |-> FloatValues(ShareCityTop(
                                                ShareFilter(share_city')))]
    /\ pc' = "report"
    /\ UNCHANGED <<vacancy_name, rows, i, err, amount, vacancy_amount, count,
                   mean_salary, artifacts, other, dct>>

-----------------------------------------------------------------------------
(* Report *)

\* for year in self.salary: ... self.this_vacancy_salary[year] ...
\* self.this_vacancy_amount[year] raises KeyError
YearLookupRaises(r) ==
    \E n \in 1..Len(r.salary) :
        \/ ~DictHas(r.this_vacancy_salary, r.salary[n][1])
        \/ ~DictHas(r.amount, r.salary[n][1])
        \/ ~DictHas(r.this_vacancy_amount, r.salary[n][1])

\* some value of share_city is a str
HasStrShare(r) ==
    \E n \in 1..Len(r.share_city) : r.share_city[n][2].type = "str"

\* self.share_city[key] = str(round(value * 100, 2)) + '%' for every item
Percentages(d) ==
    IF d = <<>> THEN <<>>
    ELSE [n \in 1..Len(d) |-> <<d[n][1], PyStr(d[n][2].v)>>]

\* the exception generate_pdf raises, or "none": the lookups of the year
\* loop, then round() of a str ('...%' * 100)
PdfError(r) ==
    IF YearLookupRaises(r) THEN "KeyError"
    ELSE IF HasStrShare(r) THEN "TypeError"
    ELSE "none"

generate_pdf ==
    /\ pc = "report"
    /\ IF PdfError(report) = "none"
       THEN /\ report' = [report EXCEPT !.share_city = Percentages(@)]
            /\ artifacts' = artifacts \cup {"report.pdf"}
            /\ UNCHANGED <<pc, err>>
       ELSE /\ pc' = "error"
            /\ err' = PdfError(report)
            /\ UNCHANGED <<report, artifacts>>
    /\ UNCHANGED <<vacancy_name, rows, i, acc, mean_salary, other, dct>>

\* sum([value for value in self.share_city.values()]), in 1/ShareScale
ShareSum(d) == PySum([n \in 1..Len(d) |-> d[n][2].v])

\* the exception generate_image raises, or "none".  The bars: bar1[0] or
\* bar2[0] of a chart without bars raises IndexError, heights that do not
\* broadcast against the years are rejected by the chart library; the pie:
\* sum() of str values raises TypeError, a negative wedge is rejected by the
\* chart library.
ImageError(r) ==
    IF Len(r.salary) = 0 THEN "IndexError"
    ELSE IF Len(r.this_vacancy_salary) = 0 /\ Len(r.salary) = 1
         THEN "IndexError"
    ELSE IF Len(r.this_vacancy_salary) \notin {Len(r.salary), 1}
         THEN "ValueError"
    ELSE IF HasStrShare(r) THEN "TypeError"
    ELSE IF ShareScale - ShareSum(r.share_city) < 0 THEN "ValueError"
    ELSE "none"

generate_image ==
    /\ pc = "report"
    /\ IF ImageError(report) = "none"
       THEN /\ other' = ShareScale - ShareSum(report.share_city)
            /\ artifacts' = artifacts \cup {"graph.png"}
            /\ UNCHANGED <<pc, err>>
       ELSE /\ pc' = "error"
            /\ err' = ImageError(report)
            /\ UNCHANGED <<other, artifacts>>
    /\ UNCHANGED <<vacancy_name, rows, i, acc, mean_salary, report, dct>>

\* the exception generate_excel raises, or "none"
ExcelError(r) == IF YearLookupRaises(r) THEN "KeyError" ELSE "none"

generate_excel ==
    /\ pc = "report"
    /\ IF ExcelError(report) = "none"
       THEN /\ artifacts' = artifacts \cup {"report.xlsx"}
            /\ UNCHANGED <<pc, err>>
       ELSE /\ pc' = "error"
            /\ err' = ExcelError(report)
            /\ UNCHANGED artifacts
    /\ UNCHANGED <<vacancy_name, rows, i, acc, mean_salary, report, other,
                   dct>>

-----------------------------------------------------------------------------
(* Inputs *)

dev == <<"d", "e", "v">>
ops == <<"o", "p", "s">>
RUR == <<"R", "U", "R">>
KZT == <<"K", "Z", "T">>
Ekb == <<"E", "k", "b">>
Msk == <<"M", "s", "k">>
In2007 == <<"2", "0", "0", "7", "-", "1", "2">>
In2008 == <<"2", "0", "0", "8", "-", "0", "1">>

\* the profession asked for: part of some names, of every name, of no name
Professions == {<<"d", "e">>, <<>>, <<"z">>}

\* rows of the free inputs: four vacancies (one with salary_from above
\* salary_to, one with a negative salary, one in another currency), a row
\* with a field missing, a row with an empty field, and rows whose salary,
\* currency or date is not understood
RowPool ==
    { <<dev, <<"1", "0">>, <<"2", "0">>, RUR, Ekb, In2007>>,
      <<ops, <<"2", "0">>, <<"1", "0">>, RUR, Msk, In2008>>,
      <<dev, <<"-", "3">>, <<"0">>, RUR, Ekb, In2008>>,
      <<ops, <<"1">>, <<"1">>, KZT, Msk, In2007>>,
      <<dev, <<"1", "0">>, <<"2", "0">>, RUR, Ekb>>,
      <<dev, <<"1", "0">>, <<"2", "0">>, RUR, <<>>, In2007>>,
      <<dev, <<"x">>, <<"2", "0">>, RUR, Ekb, In2007>>,
      <<ops, <<"1", "0">>, <<"2", "0">>, <<"X", "X", "X">>, Msk, In2008>>,
      <<ops, <<"1", "0">>, <<"2", "0">>, RUR, Msk, <<"2", "0", "-", "7">>>> }

\* the free inputs: any rows of RowPool
IsFreeInput(f) == \E n \in 0..MaxRows : f \in [1..n -> RowPool]

\* the k-th city
CityName(k) == <<"C", Digits[(k \div 10) + 1], Digits[(k % 10) + 1]>>

\* a vacancy of the k-th city, its salary cycling with period p
CityRow(k, p) ==
    <<dev, <<Digits[((k - 1) % p) + 2]>>, <<Digits[((k - 1) % p) + 2]>>, RUR,
      CityName(k), In2007>>

\* n cities in order, then e more vacancies of city d
CityFile(n, d, e, p) ==
    [k \in 1..(n + e) |-> IF k <= n THEN CityRow(k, p) ELSE CityRow(d, p)]

IsCityInput(f) ==
    \E n \in 1..MaxCities, d \in 1..MaxCities, e \in 0..MaxExtra,
       p \in 1..MaxPeriod : d <= n /\ f = CityFile(n, d, e, p)

\* two cities, one of them with about 1% of the vacancies
IsHeavyInput(f) ==
    \E d \in 1..2, e \in (HeavyRepeat - 1)..(HeavyRepeat + 1) :
        f = CityFile(2, d, e, 1)

\* buckets of the inputs of get_salary_avg called alone: -1.5, -0.5, 1.5
AvgValues == {-3 * RateScale, -RateScale, 3 * RateScale}
AvgBuckets == UNION {[1..n -> AvgValues] : n \in 0..MaxBucket}
IsAvgInput(d) ==
    \E n \in 0..MaxKeys : \E f \in [1..n -> AvgBuckets] :
        d = [k \in 1..n |-> <<2000 + k, f[k]>>]

-----------------------------------------------------------------------------
(* Specifications *)

Init ==
    /\ vacancy_name \in Professions
    /\ \/ IsFreeInput(rows)
       \/ IsCityInput(rows)
       \/ IsHeavyInput(rows)
    /\ i = 1
    /\ pc = "parse"
    /\ err = "none"
    /\ salary = <<>>
    /\ amount = <<>>
    /\ vacancy_salary = <<>>
    /\ vacancy_amount = <<>>
    /\ salary_city = <<>>
    /\ share_city = <<>>
    /\ count = 0
    /\ mean_salary = 0
    /\ report = NoReport
    /\ artifacts = {}
    /\ other = 0
    /\ dct = <<>>

Next ==
    \/ SkipRow
    \/ AddVacancy
    \/ RowRaises
    \/ get_clear_data
    \/ generate_pdf
    \/ generate_image
    \/ generate_excel

Spec == Init /\ [][Next]_vars

\* get_salary_avg called alone on a dict of buckets
InitAvg ==
    /\ IsAvgInput(dct)
    /\ salary = dct
    /\ pc = "avg"
    /\ vacancy_name = <<>>
    /\ rows = <<>>
    /\ i = 1
    /\ err = "none"
    /\ amount = <<>>
    /\ vacancy_salary = <<>>
    /\ vacancy_amount = <<>>
    /\ salary_city = <<>>
    /\ share_city = <<>>
    /\ count = 0
    /\ mean_salary = 0
    /\ report = NoReport
    /\ artifacts = {}
    /\ other = 0

CallAvg ==
    /\ pc = "avg"
    /\ salary' = get_salary_avg(salary)
    /\ pc' = "avg_done"
    /\ UNCHANGED <<vacancy_name, rows, i, err, amount, vacancy_salary,
                   vacancy_amount, salary_city, share_city, count,
                   mean_salary, report, artifacts, other, dct>>

NextAvg == CallAvg

SpecAvg == InitAvg /\ [][NextAvg]_vars

-----------------------------------------------------------------------------
(* What the properties below read off the input file *)

\* a row that is not skipped: as many fields as the header, none empty
IsRecord(row) ==
    Len(row) = Len(titles) /\ \A k \in 1..Len(row) : Len(row[k]) > 0

\* the published year and the normalized salary (in 1/SalaryScale) of a record
RecordYear(row) == PyNumber(SubSeq(row[6], 1, 4))
RecordSalary(row) ==
    (PyNumber(row[2]) + PyNumber(row[3])) * DictGet(currency_to_rub, row[4])

\* the records of year y
RecordsOf(y) ==
    {k \in 1..Len(rows) : IsRecord(rows[k]) /\ RecordYear(rows[k]) = y}

RECURSIVE SalarySum(_)
SalarySum(S) ==
    IF S = {} THEN 0
    ELSE LET k == CHOOSE x \in S : TRUE
         IN  RecordSalary(rows[k]) + SalarySum(S \ {k})

\* the integer part of total / (SalaryScale * n), toward zero
TruncatedMean(total, n) ==
    IF total >= 0 THEN total \div (SalaryScale * n)
    ELSE -((-total) \div (SalaryScale * n))

\* get_clear_data has returned and the Report holds the six maps
Finalized == pc \in {"report", "error"} /\ i > Len(rows)

\* get_clear_data has just returned: nothing has been rendered yet
Returned == pc = "report" /\ artifacts = {}

-----------------------------------------------------------------------------
(* C1: after the aggregation of the rows, for every year y of the output,  *)
(* count_by_year[y] is the number of non-skipped records published in y    *)
(* and salary_by_year[y] is the truncated integer mean of the normalized   *)
(* salaries of exactly those records.                                      *)
C1_YearStatistics ==
    Returned =>
        \A y \in DictKeys(report.salary) \cup DictKeys(report.amount) :
            LET records == RecordsOf(y)
            IN  /\ DictHas(report.amount, y)
                /\ DictHas(report.salary, y)
                /\ DictGet(report.amount, y) = Cardinality(records)
                /\ DictGet(report.salary, y) =
                       TruncatedMean(SalarySum(records), Cardinality(records))

\* a returned year of two or more records whose mean is not an integer, in
\* a file that also has a skipped row
C1_Witness ==
    /\ Returned
    /\ \E k \in 1..Len(rows) : ~IsRecord(rows[k])
    /\ \E y \in DictKeys(report.salary) :
           /\ Cardinality(RecordsOf(y)) >= 2
           /\ SalarySum(RecordsOf(y))
                  % (SalaryScale * Cardinality(RecordsOf(y))) # 0

(* C2: after every processed row and in the output, every year of          *)
(* filtered_count_by_year is a year of count_by_year and its filtered      *)
(* count is at most its count.                                             *)
C2_FilteredWithinAll ==
    /\ \A n \in 1..Len(vacancy_amount) :
           /\ DictHas(amount, vacancy_amount[n][1])
           /\ vacancy_amount[n][2] <= DictGet(amount, vacancy_amount[n][1])
    /\ \A n \in 1..Len(report.this_vacancy_amount) :
           /\ DictHas(report.amount, report.this_vacancy_amount[n][1])
           /\ report.this_vacancy_amount[n][2]
                  <= DictGet(report.amount, report.this_vacancy_amount[n][1])

\* mid-pass (rows are left), a year whose filtered count is below its count
C2_Witness ==
    /\ pc = "parse"
    /\ i <= Len(rows)
    /\ \E n \in 1..Len(vacancy_amount) :
           vacancy_amount[n][2] < DictGet(amount, vacancy_amount[n][1])

(* C3: for a non-empty set of records, the city shares                     *)
(* round(count / total_record_count, 4) sum to at most 1.0 over all cities *)
(* (before the top 10 are taken), and every share kept in the output is    *)
(* strictly greater than 0.01.                                             *)
C3_SharesWithinOne ==
    (Finalized /\ count > 0) =>
        /\ PySum([n \in 1..Len(share_city) |-> share_city[n][2]]) <= 10000
        /\ \A n \in 1..Len(report.share_city) :
               report.share_city[n][2].v > 100

\* the place of the first record of city c in the file
FirstSeen(c) ==
    CHOOSE k \in 1..Len(rows) :
        /\ IsRecord(rows[k]) /\ rows[k][5] = c
        /\ \A j \in 1..(k - 1) : ~(IsRecord(rows[j]) /\ rows[j][5] = c)

\* the pairs <<city, number>> of d are in descending order of the number,
\* equal numbers in the order their cities were first seen
IsRanked(d) ==
    \A a, b \in 1..Len(d) :
        a < b => /\ d[a][2] >= d[b][2]
                 /\ d[a][2] = d[b][2] => FirstSeen(d[a][1]) < FirstSeen(d[b][1])

ShareNumbers(d) ==
    IF d = <<>> THEN <<>>
    ELSE [n \in 1..Len(d) |-> <<d[n][1], d[n][2].v>>]

(* C4: salary_city_top10 and share_city_top10 each hold at most 10         *)
(* entries, in descending order of the value, entries of equal value in    *)
(* the order in which their cities were first met in the input.            *)
C4_TopTenRanked ==
    Returned =>
        /\ Len(report.salary_city) <= 10
        /\ Len(report.share_city) <= 10
        /\ IsRanked(report.salary_city)
        /\ IsRanked(ShareNumbers(report.share_city))

\* more than ten cities pass the threshold, ten are kept in each list, and
\* each list has both equal and unequal neighbours
C4_Witness ==
    /\ Returned
    /\ Len(share_city) > 10
    /\ \A n \in 1..Len(share_city) : share_city[n][2] > 100
    /\ Len(report.salary_city) = 10
    /\ Len(report.share_city) = 10
    /\ \E a \in 1..9 : report.salary_city[a][2] = report.salary_city[a + 1][2]
    /\ \E a \in 1..9 : report.salary_city[a][2] > report.salary_city[a + 1][2]
    /\ \E a \in 1..9 :
           report.share_city[a][2].v = report.share_city[a + 1][2].v
    /\ \E a \in 1..9 :
           report.share_city[a][2].v > report.share_city[a + 1][2].v

\* no row of the file is a record
NoRecords == \A k \in 1..Len(rows) : ~IsRecord(rows[k])

C6_SkippedRowChangesNothing ==
    [][(/\ pc = "parse"
        /\ i <= Len(rows)
        /\ \/ Len(rows[i]) # Len(titles)
           \/ \E k \in 1..Len(rows[i]) : rows[i][k] = <<>>)
       => (/\ acc' = acc
           /\ i' = i + 1
           /\ pc' = "parse"
           /\ err' = "none")]_vars

\* a record was aggregated, then a row with a field missing and a row with
\* an empty field were passed over
C6_Witness ==
    /\ pc = "parse"
    /\ i = 4
    /\ IsRecord(rows[1])
    /\ Len(rows[2]) # Len(titles)
    /\ Len(rows[3]) = Len(titles)
    /\ \E k \in 1..Len(rows[3]) : rows[3][k] = <<>>
    /\ count = 1
    /\ Len(salary) = 1

(* C7: once get_clear_data has produced the bundle, no later operation     *)
(* (generate_image, generate_pdf, generate_excel, in any order) changes a  *)
(* key or a value of its six maps.                                         *)
C7_BundleNeverChanges == [][pc = "report" => report' = report]_vars

(* C8: in the output the four year maps have the same keys as              *)
(* salary_by_year, so the per-year lookups of the filtered maps by the     *)
(* document and the spreadsheet always find a value.                       *)
C8_SameYears ==
    Finalized =>
        /\ DictKeys(report.amount) = DictKeys(report.salary)
        /\ DictKeys(report.this_vacancy_salary) = DictKeys(report.salary)
        /\ DictKeys(report.this_vacancy_amount) = DictKeys(report.salary)
        /\ err # "KeyError"

(* C9: for the currency RUR the normalized salary is the midpoint          *)
(* 0.5 * (salary_from + salary_to), also when salary_from exceeds          *)
(* salary_to; with salary_from = salary_to = X it is X.                    *)
C9_RoubleMidpoint ==
    (i > 1 /\ IsRecord(rows[i - 1]) /\ rows[i - 1][4] = <<"R", "U", "R">>) =>
        LET from == PyNumber(rows[i - 1][2])
            to   == PyNumber(rows[i - 1][3])
        IN  /\ 2 * mean_salary = (from + to) * 20000
            /\ from = to => mean_salary = from * 20000

\* the vacancy just aggregated has salary_from 20, salary_to 10, in RUR: 15
C9_Witness ==
    /\ i > 1
    /\ IsRecord(rows[i - 1])
    /\ rows[i - 1][4] = <<"R", "U", "R">>
    /\ rows[i - 1][2] = <<"2", "0">>
    /\ rows[i - 1][3] = <<"1", "0">>
    /\ mean_salary = 15 * 20000

(* C10 (as stated): finalizing a salary bucket gives 0 for an empty bucket *)
(* and otherwise the floor of the arithmetic mean of its salaries, for     *)
(* every content of the bucket, negative salaries included.                *)
C10_FlooredAverage ==
    pc = "avg_done" =>
        /\ Len(salary) = Len(dct)
        /\ \A n \in 1..Len(dct) :
               /\ salary[n][1] = dct[n][1]
               /\ salary[n][2] =
                      IF dct[n][2] = <<>> THEN 0
                      ELSE PySum(dct[n][2]) \div (20000 * Len(dct[n][2]))

(* C10 (amended): finalizing a salary bucket gives 0 for an empty bucket   *)
(* and otherwise the arithmetic mean of its salaries truncated toward      *)
(* zero, which is the floor only when the mean is not negative.            *)
C10_TruncatedAverage ==
    pc = "avg_done" =>
        /\ Len(salary) = Len(dct)
        /\ \A n \in 1..Len(dct) :
               /\ salary[n][1] = dct[n][1]
               /\ salary[n][2] =
                      IF dct[n][2] = <<>> THEN 0
                      ELSE TruncatedMean(PySum(dct[n][2]), Len(dct[n][2]))

\* a dict with an empty bucket and a bucket whose mean is negative and not
\* an integer has been averaged
C10_Witness ==
    /\ pc = "avg_done"
    /\ \E n \in 1..Len(dct) : dct[n][2] = <<>> /\ salary[n][2] = 0
    /\ \E n \in 1..Len(dct) :
           /\ dct[n][2] # <<>>
           /\ PySum(dct[n][2]) < 0
           /\ PySum(dct[n][2]) % (20000 * Len(dct[n][2])) # 0

=============================================================================
